---- MODULE Spec2Model ----
(***************************************************************************)
(* Model of scripts/nasdaq_returns.py: one run of main(), i.e.            *)
(* parse_args -> fetch_price_history -> compute_returns ->                *)
(* summarize_returns -> plot_returns, with the price provider             *)
(* (yf.download), the pandas column operations and the chart window       *)
(* modelled by what they do.                                              *)
(*                                                                         *)
(* Numbers are floats in the program.  Here a number is a pair <<n, d>>:  *)
(* a normalised fraction n/d when d > 0 (exact rational arithmetic), and  *)
(* the IEEE special values when d = 0: <<1,0>> = +inf, <<-1,0>> = -inf,   *)
(* <<0,0>> = NaN (also pandas' "missing").                                *)
(***************************************************************************)
EXTENDS Integers, Sequences, FiniteSets, TLC

\* longest price table the provider returns in the model
MaxRows == 3

(***************************************************************************)
(* Float values                                                            *)
(***************************************************************************)
Abs(x) == IF x < 0 THEN -x ELSE x

Sign(x) == IF x < 0 THEN -1 ELSE IF x > 0 THEN 1 ELSE 0

RECURSIVE GCD(_, _)
GCD(a, b) == IF b = 0 THEN a ELSE GCD(b, a % b)

Norm(n, d) ==
    IF d = 0 THEN <<Sign(n), 0>>
    ELSE LET g == GCD(Abs(n), Abs(d))
             s == Sign(d)
         IN  <<(s * n) \div g, (s * d) \div g>>

NaN == <<0, 0>>
Inf == <<1, 0>>
Zero == <<0, 1>>
One == <<1, 1>>
Num(k) == <<k, 1>>

IsNaN(v) == v = NaN
IsFinite(v) == v[2] > 0

\* float +, *, / on finite values and on inf/NaN (x/0 = +-inf, 0/0 = NaN,
\* 0*inf = NaN, NaN absorbs); inf + inf does not occur in the program
FAdd(a, b) == Norm(a[1] * b[2] + b[1] * a[2], a[2] * b[2])
FMul(a, b) == Norm(a[1] * b[1], a[2] * b[2])
FDiv(a, b) ==
    LET s == IF b[1] < 0 THEN -1 ELSE 1
    IN  Norm(a[1] * b[2] * s, a[2] * Abs(b[1]))

(***************************************************************************)
(* Series and frames.  A frame is an index (the dates) and named columns  *)
(* of equal length.                                                        *)
(***************************************************************************)
Frame(idx, cols) == [index |-> idx, columns |-> cols]

EmptyFrame == Frame(<<>>, <<>>)

NRows(f) == Len(f.index)

\* DataFrame.empty
IsEmpty(f) == NRows(f) = 0 \/ DOMAIN f.columns = {}

\* f[[names]]
Select(f, names) == Frame(f.index, [c \in names |-> f.columns[c]])

\* f.rename(columns={old: new})
Rename(f, old, new) ==
    LET names == {IF c = old THEN new ELSE c : c \in DOMAIN f.columns}
    IN  Frame(f.index, [c \in names |-> IF c = new /\ old \in DOMAIN f.columns
                                         THEN f.columns[old] ELSE f.columns[c]])

\* f[name] = values, on a frame that may or may not have the column
SetColumn(f, name, values) ==
    Frame(f.index, [c \in DOMAIN f.columns \cup {name} |->
                       IF c = name THEN values ELSE f.columns[c]])

RECURSIVE Keep(_, _)
Keep(s, rows) ==
    IF s = <<>> THEN <<>>
    ELSE LET rest == Keep(Tail(s), {r - 1 : r \in rows \ {1}})
         IN  IF 1 \in rows THEN <<Head(s)>> \o rest ELSE rest

\* f.dropna(): the rows with no NaN in any column, in order
CompleteRows(f) ==
    {i \in 1..NRows(f) : \A c \in DOMAIN f.columns : ~IsNaN(f.columns[c][i])}

DropNa(f) ==
    Frame(Keep(f.index, CompleteRows(f)),
          [c \in DOMAIN f.columns |-> Keep(f.columns[c], CompleteRows(f))])

\* Series.ffill(): a missing value takes the last present value before it
RECURSIVE FFill(_)
FFill(s) ==
    IF Len(s) <= 1 THEN s
    ELSE LET init == FFill(SubSeq(s, 1, Len(s) - 1))
             last == s[Len(s)]
         IN  Append(init, IF IsNaN(last) THEN init[Len(init)] ELSE last)

\* pct_change with the ratio upside down: previous / current - 1
PctChange_inverted(s, method) ==
    LET data == IF method = "pad" THEN FFill(s) ELSE s
    IN  [i \in 1..Len(s) |->
           IF i = 1 THEN NaN ELSE FAdd(FDiv(data[i - 1], data[i]), Num(-1))]

\* Series.pct_change(): data / data.shift(1) - 1, where data is the series
\* forward-filled first when the installed pandas defaults fill_method to "pad"
PctChange(s, method) ==
    LET data == IF method = "pad" THEN FFill(s) ELSE s
    IN  [i \in 1..Len(s) |->
           IF i = 1 THEN NaN ELSE FAdd(FDiv(data[i], data[i - 1]), Num(-1))]

\* Series.fillna(value)
FillNa(s, value) == [i \in 1..Len(s) |-> IF IsNaN(s[i]) THEN value ELSE s[i]]

\* a running product that forgets what it accumulated: each growth factor alone
RunningProduct_no_carry(s) == s

\* Series.cumprod() (skipna): a running product; a missing input is skipped
\* and gives a missing output
RECURSIVE RunningProduct(_)
RunningProduct(s) ==
    IF s = <<>> THEN <<>>
    ELSE LET init == RunningProduct(SubSeq(s, 1, Len(s) - 1))
             acc  == IF init = <<>> THEN One ELSE init[Len(init)]
             x    == s[Len(s)]
         IN  Append(init, IF IsNaN(x) THEN acc ELSE FMul(acc, x))

\* cumsum where cumprod was meant: a running sum of the growth factors
RECURSIVE RunningSum(_)
RunningSum(s) ==
    IF s = <<>> THEN <<>>
    ELSE LET init == RunningSum(SubSeq(s, 1, Len(s) - 1))
         IN  Append(init, IF init = <<>> THEN s[Len(s)] ELSE FAdd(init[Len(init)], s[Len(s)]))

CumProd_as_sum(s) ==
    [i \in 1..Len(s) |-> IF IsNaN(s[i]) THEN NaN ELSE RunningSum(s)[i]]

CumProd(s) ==
    [i \in 1..Len(s) |-> IF IsNaN(s[i]) THEN NaN ELSE RunningProduct(s)[i]]

\* Series.iloc[k] for k = 0 (first) and k = -1 (last); IndexError when the
\* position is out of bounds
ILoc(s, k) ==
    LET pos == IF k < 0 THEN Len(s) + 1 + k ELSE k + 1
    IN  IF pos \in 1..Len(s) THEN [ok |-> TRUE, value |-> s[pos]]
        ELSE [ok |-> FALSE, value |-> NaN]

(***************************************************************************)
(* Dates: a date string is a sequence of characters                        *)
(***************************************************************************)
Digits == {"0", "1", "2", "3", "4", "5", "6", "7", "8", "9"}

DigitVal(c) ==
    CASE c = "0" -> 0 [] c = "1" -> 1 [] c = "2" -> 2 [] c = "3" -> 3
      [] c = "4" -> 4 [] c = "5" -> 5 [] c = "6" -> 6 [] c = "7" -> 7
      [] c = "8" -> 8 [] c = "9" -> 9

DigitChar(k) ==
    CASE k = 0 -> "0" [] k = 1 -> "1" [] k = 2 -> "2" [] k = 3 -> "3"
      [] k = 4 -> "4" [] k = 5 -> "5" [] k = 6 -> "6" [] k = 7 -> "7"
      [] k = 8 -> "8" [] k = 9 -> "9"

IsLeap(y) == (y % 4 = 0 /\ y % 100 # 0) \/ y % 400 = 0

DaysInMonth(y, m) ==
    IF m = 2 THEN (IF IsLeap(y) THEN 29 ELSE 28)
    ELSE IF m \in {4, 6, 9, 11} THEN 30 ELSE 31

\* datetime.fromisoformat on a date-only string: YYYY-MM-DD, a real calendar
\* date; anything else raises ValueError
FromIsoFormat(s) ==
    IF /\ Len(s) = 10
       /\ \A i \in {1, 2, 3, 4, 6, 7, 9, 10} : s[i] \in Digits
       /\ s[5] = "-" /\ s[8] = "-"
    THEN LET y == DigitVal(s[1]) * 1000 + DigitVal(s[2]) * 100
                    + DigitVal(s[3]) * 10 + DigitVal(s[4])
             m == DigitVal(s[6]) * 10 + DigitVal(s[7])
             d == DigitVal(s[9]) * 10 + DigitVal(s[10])
         IN  IF y >= 1 /\ m \in 1..12 /\ d \in 1..DaysInMonth(y, m)
             THEN [ok |-> TRUE, year |-> y, month |-> m, day |-> d]
             ELSE [ok |-> FALSE, year |-> 0, month |-> 0, day |-> 0]
    ELSE [ok |-> FALSE, year |-> 0, month |-> 0, day |-> 0]

\* "{:%Y-%m-%d}".format(date)
FormatYmd(dt) ==
    << DigitChar(dt.year \div 1000), DigitChar((dt.year \div 100) % 10),
       DigitChar((dt.year \div 10) % 10), DigitChar(dt.year % 10), "-",
       DigitChar(dt.month \div 10), DigitChar(dt.month % 10), "-",
       DigitChar(dt.day \div 10), DigitChar(dt.day % 10) >>

(***************************************************************************)
(* Number formatting                                                       *)
(***************************************************************************)
RoundHalfEven(n, d) ==
    LET q == n \div d
        r == n % d
    IN  IF 2 * r < d THEN q
        ELSE IF 2 * r > d THEN q + 1
        ELSE q + (q % 2)

\* the text of a float printed in fixed notation after scaling by `scale`:
\* its sign and the rounded count of units in the last place, or inf / nan
FormatFixed(v, scale) ==
    IF v[2] = 0
    THEN [neg |-> v[1] < 0, special |-> IF v[1] = 0 THEN "nan" ELSE "inf", units |-> 0]
    ELSE [neg |-> v[1] < 0, special |-> "", units |-> RoundHalfEven(Abs(v[1]) * scale, v[2])]

\* f"{x:,.2f}": units are hundredths
Format2f(v) == FormatFixed(v, 100)

\* f"{x:.2%}": units are hundredths of a percent
Format2Pct(v) == FormatFixed(v, 10000)

(***************************************************************************)
(* Inputs of a run                                                         *)
(***************************************************************************)
DefaultTicker == "^IXIC"
DefaultStart == <<"2", "0", "0", "5", "-", "0", "1", "-", "0", "1">>
DefaultEnd == <<"2", "0", "2", "5", "-", "1", "0", "-", "2", "8">>

\* an option of the command line: <<>> when absent, <<value>> when given
Absent == <<>>
Given(values) == {<<v>> : v \in values}

\* date strings given on the command line: a leap day, a string that is not
\* YYYY-MM-DD, and a day that is not in the calendar
GivenDates ==
    { <<"2", "0", "2", "4", "-", "0", "2", "-", "2", "9">>,
      <<"2", "0", "0", "5", "-", "1", "-", "1">>,
      <<"2", "0", "2", "5", "-", "0", "2", "-", "3", "0">> }

GivenTickers == {"AAPL"}

\* command lines: options, -h/--help, or an argument argparse does not accept
Argvs ==
    [kind : {"options"}, ticker : Given(GivenTickers) \cup {Absent},
     start_date : Given(GivenDates) \cup {Absent},
     end_date : Given(GivenDates) \cup {Absent}]
    \cup [kind : {"help", "unrecognized"}, ticker : {Absent},
          start_date : {Absent}, end_date : {Absent}]

\* adjusted closes the provider may report: missing, zero, or a price
PriceValues == {NaN, Num(0), Num(99), Num(100), Num(110)}

\* the table yf.download returns: one row per trading day (the index holds the
\* day numbers, ascending), with at least the Close and Adj Close columns
DownloadedFrames ==
    UNION { { Frame([i \in 1..n |-> i], [c \in {"Adj Close", "Close"} |-> adj])
              : adj \in [1..n -> PriceValues] } : n \in 0..MaxRows }

\* what the provider does with the one call: raises, or returns a table
ProviderReplies ==
    {[raised |-> "ProviderError", frame |-> EmptyFrame]}
    \cup {[raised |-> "none", frame |-> f] : f \in DownloadedFrames}

(***************************************************************************)
(* The program's functions                                                 *)
(***************************************************************************)
\* AnalysisConfig(ticker, start_date, end_date)
AnalysisConfig(ticker, start_date, end_date) ==
    [ticker |-> ticker, start_date |-> start_date, end_date |-> end_date]

NoConfig == AnalysisConfig("", <<>>, <<>>)

\* date_range that parses the end date without noticing that it failed
date_range_start_only(config) ==
    LET start == FromIsoFormat(config.start_date)
        end   == FromIsoFormat(config.end_date)
    IN  IF start.ok
        THEN [raised |-> "none", start |-> start, end |-> end]
        ELSE [raised |-> "ValueError", start |-> start, end |-> end]

\* AnalysisConfig.date_range
date_range(config) ==
    LET start == FromIsoFormat(config.start_date)
        end   == FromIsoFormat(config.end_date)
    IN  IF start.ok /\ end.ok
        THEN [raised |-> "none", start |-> start, end |-> end]
        ELSE [raised |-> "ValueError", start |-> start, end |-> end]

\* the arguments fetch_price_history passes to yf.download
download_call(config) ==
    [ticker |-> config.ticker, start |-> config.start_date, end |-> config.end_date,
     auto_adjust |-> FALSE, progress |-> FALSE]

\* fetch_price_history without its check for an empty result
fetch_without_empty_check(reply) ==
    IF reply.raised # "none" THEN [raised |-> reply.raised, value |-> EmptyFrame]
    ELSE [raised |-> "none",
          value |-> Rename(Select(reply.frame, {"Adj Close"}), "Adj Close", "adj_close")]

\* fetch_price_history, given what yf.download did
fetch_price_history(reply) ==
    IF reply.raised # "none" THEN [raised |-> reply.raised, value |-> EmptyFrame]
    ELSE IF IsEmpty(reply.frame) THEN [raised |-> "RuntimeError", value |-> EmptyFrame]
    ELSE [raised |-> "none",
          value |-> Rename(Select(reply.frame, {"Adj Close"}), "Adj Close", "adj_close")]

\* compute_returns without fillna(0.0): the first daily return stays missing
derive_columns_no_fillna(frame, fill_method) ==
    LET daily  == PctChange(frame.columns["adj_close"], fill_method)
        with1  == SetColumn(frame, "daily_return", daily)
        growth == [i \in 1..Len(daily) |-> FAdd(One, with1.columns["daily_return"][i])]
        cum    == [i \in 1..Len(daily) |-> FAdd(CumProd(growth)[i], Num(-1))]
    IN  SetColumn(with1, "cumulative_return", cum)

\* the two derived columns of compute_returns, before rows are dropped
derive_columns(frame, fill_method) ==
    LET daily  == FillNa(PctChange(frame.columns["adj_close"], fill_method), Zero)
        with1  == SetColumn(frame, "daily_return", daily)
        growth == [i \in 1..Len(daily) |-> FAdd(One, with1.columns["daily_return"][i])]
        cum    == [i \in 1..Len(daily) |-> FAdd(CumProd(growth)[i], Num(-1))]
    IN  SetColumn(with1, "cumulative_return", cum)

\* compute_returns: works on a copy, so the caller's frame is what it was
compute_returns(price_history, fill_method) ==
    [price_history |-> price_history,
     value |-> DropNa(derive_columns(price_history, fill_method))]

\* summarize_returns reading the ending close at position 0 as well
summary_values_first_only(returns) ==
    [first_price |-> ILoc(returns.columns["adj_close"], 0),
     last_price  |-> ILoc(returns.columns["adj_close"], 0),
     total       |-> ILoc(returns.columns["cumulative_return"], -1)]

\* the three values summarize_returns reads from the return series
summary_values(returns) ==
    [first_price |-> ILoc(returns.columns["adj_close"], 0),
     last_price  |-> ILoc(returns.columns["adj_close"], -1),
     total       |-> ILoc(returns.columns["cumulative_return"], -1)]

\* summarize_returns: the lines it prints, or the exception it raises before
\* printing anything
summarize_returns(returns, config) ==
    LET range == date_range(config)
        v     == summary_values(returns)
    IN  IF range.raised # "none" THEN [raised |-> range.raised, out |-> <<>>]
        ELSE IF ~(v.first_price.ok /\ v.last_price.ok /\ v.total.ok)
        THEN [raised |-> "IndexError", out |-> <<>>]
        ELSE [raised |-> "none",
              out |-> << [text |-> "Summary for", ticker |-> config.ticker,
                          start |-> FormatYmd(range.start), end |-> FormatYmd(range.end)],
                         [text |-> "Starting adjusted close",
                          value |-> Format2f(v.first_price.value)],
                         [text |-> "Ending adjusted close",
                          value |-> Format2f(v.last_price.value)],
                         [text |-> "Total cumulative return",
                          value |-> Format2Pct(v.total.value)] >>]

\* the two panels plot_returns draws
plot_figure(returns, config) ==
    [title |-> config.ticker,
     x |-> returns.index,
     price |-> returns.columns["adj_close"],
     cumulative_pct |-> [i \in 1..NRows(returns) |->
                           FMul(returns.columns["cumulative_return"][i], Num(100))]]

NoFigure == [title |-> "", x |-> <<>>, price |-> <<>>, cumulative_pct |-> <<>>]

\* parse_args on a command line that argparse accepts
parse_args(argv) ==
    AnalysisConfig(IF argv.ticker = Absent THEN DefaultTicker ELSE argv.ticker[1],
                   IF argv.start_date = Absent THEN DefaultStart ELSE argv.start_date[1],
                   IF argv.end_date = Absent THEN DefaultEnd ELSE argv.end_date[1])

(***************************************************************************)
(* One run of main()                                                       *)
(***************************************************************************)
VARIABLES
    pc,              \* the statement of main() that runs next, or "exited"
    fill_method,     \* pct_change's default fill_method in the installed pandas
    config,          \* the AnalysisConfig parse_args built
    provider_calls,  \* the yf.download calls made so far
    downloaded,      \* what yf.download replied
    price_history,   \* main's price_history
    returns,         \* main's returns
    stdout,          \* the lines printed so far
    window,          \* the chart window: "none", "open", "closed"
    figure,          \* what the chart window shows
    error,           \* the exception that ended the run, or "none"
    exit_status,     \* the process exit status once exited, else NotExited
    started,         \* the stages entered, in order
    completed        \* the stages that returned normally, in order

vars == <<pc, fill_method, config, provider_calls, downloaded, price_history, returns,
          stdout, window, figure, error, exit_status, started, completed>>

NotExited == -1

NoReply == [raised |-> "none", frame |-> EmptyFrame]

Init ==
    /\ pc = "parse_args"
    /\ fill_method \in {"pad", "none"}
    /\ config = NoConfig
    /\ provider_calls = <<>>
    /\ downloaded = NoReply
    /\ price_history = EmptyFrame
    /\ returns = EmptyFrame
    /\ stdout = <<>>
    /\ window = "none"
    /\ figure = NoFigure
    /\ error = "none"
    /\ exit_status = NotExited
    /\ started = <<>>
    /\ completed = <<>>

\* main() with a handler that logs the exception and goes on to the next
\* statement
Raise_swallowed(exc) ==
    /\ pc' = (IF pc = "fetch" THEN "compute"
              ELSE IF pc = "summarize" THEN "render" ELSE "exited")
    /\ error' = exc
    /\ exit_status' = (IF pc = "render" THEN 1 ELSE exit_status)
    /\ completed' = completed

\* main() with a handler that reports the exception and returns normally
Raise_exit_zero(exc) ==
    /\ pc' = "exited"
    /\ error' = exc
    /\ exit_status' = 0
    /\ completed' = completed

\* main() with a handler that runs a failed fetch again
Raise_retry(exc) ==
    /\ pc' = (IF pc = "fetch" THEN "fetch" ELSE "exited")
    /\ error' = exc
    /\ exit_status' = (IF pc = "fetch" THEN exit_status ELSE 1)
    /\ completed' = completed

\* an exception leaves the stage: nothing in main() catches it, so the
\* interpreter reports it and the process exits with status 1
Raise(exc) ==
    /\ pc' = "exited"
    /\ error' = exc
    /\ exit_status' = 1
    /\ completed' = completed

\* the stage returns and main() goes on to its next statement
Return(stage, next) ==
    /\ pc' = next
    /\ error' = error
    /\ exit_status' = exit_status
    /\ completed' = Append(completed, stage)

\* config = parse_args(): argparse prints help and exits 0 on -h/--help, and
\* exits 2 on a command line it does not accept
MainParseArgs ==
    /\ pc = "parse_args"
    /\ \E argv \in Argvs :
         CASE argv.kind = "help" ->
                /\ pc' = "exited" /\ error' = "SystemExit" /\ exit_status' = 0
                /\ config' = config
           [] argv.kind = "unrecognized" ->
                /\ pc' = "exited" /\ error' = "SystemExit" /\ exit_status' = 2
                /\ config' = config
           [] OTHER ->
                /\ pc' = "fetch" /\ error' = error /\ exit_status' = exit_status
                /\ config' = parse_args(argv)
    /\ UNCHANGED <<fill_method, provider_calls, downloaded, price_history, returns,
                   stdout, window, figure, started, completed>>

\* price_history = fetch_price_history(config)
MainFetch ==
    /\ pc = "fetch"
    /\ started' = Append(started, "fetch")
    /\ provider_calls' = Append(provider_calls, download_call(config))
    /\ \E reply \in ProviderReplies :
         LET result == fetch_price_history(reply)
         IN  /\ downloaded' = reply
             /\ price_history' = result.value
             /\ IF result.raised = "none" THEN Return("fetch", "compute")
                ELSE Raise(result.raised)
    /\ UNCHANGED <<fill_method, config, returns, stdout, window, figure>>

\* returns = compute_returns(price_history)
MainCompute ==
    /\ pc = "compute"
    /\ started' = Append(started, "compute")
    /\ LET result == compute_returns(price_history, fill_method)
       IN  /\ price_history' = result.price_history
           /\ returns' = result.value
    /\ Return("compute", "summarize")
    /\ UNCHANGED <<fill_method, config, provider_calls, downloaded, stdout, window, figure>>

\* summarize_returns(returns, config)
MainSummarize ==
    /\ pc = "summarize"
    /\ started' = Append(started, "summarize")
    /\ LET result == summarize_returns(returns, config)
       IN  /\ stdout' = stdout \o result.out
           /\ IF result.raised = "none" THEN Return("summarize", "render")
              ELSE Raise(result.raised)
    /\ UNCHANGED <<fill_method, config, provider_calls, downloaded, price_history,
                   returns, window, figure>>

\* plot_returns(returns, config) up to plt.show(): with an interactive backend
\* the window opens and the call blocks; a non-interactive backend draws the
\* figure, cannot open a window, and plt.show() returns at once, so main()
\* returns and the process exits 0; or the plotting backend raises
MainPlot ==
    /\ pc = "render"
    /\ started' = Append(started, "render")
    /\ \E backend \in {"interactive", "noninteractive", "raises"} :
         CASE backend = "interactive" ->
                /\ window' = "open"
                /\ figure' = plot_figure(returns, config)
                /\ pc' = "showing"
                /\ UNCHANGED <<error, exit_status, completed>>
           [] backend = "noninteractive" ->
                /\ window' = window
                /\ figure' = plot_figure(returns, config)
                /\ pc' = "exited"
                /\ exit_status' = 0
                /\ error' = error
                /\ completed' = Append(completed, "render")
           [] OTHER ->
                /\ UNCHANGED <<window, figure>>
                /\ Raise("DisplayError")
    /\ UNCHANGED <<fill_method, config, provider_calls, downloaded, price_history,
                   returns, stdout>>

\* the user closes the window: plt.show() returns, plot_returns returns,
\* main() returns and the process exits 0
CloseWindow ==
    /\ pc = "showing"
    /\ window' = "closed"
    /\ pc' = "exited"
    /\ exit_status' = 0
    /\ error' = error
    /\ completed' = Append(completed, "render")
    /\ UNCHANGED <<fill_method, config, provider_calls, downloaded, price_history,
                   returns, stdout, figure, started>>

Next ==
    \/ MainParseArgs
    \/ MainFetch
    \/ MainCompute
    \/ MainSummarize
    \/ MainPlot
    \/ CloseWindow

Spec == Init /\ [][Next]_vars

(***************************************************************************)
(* Properties                                                              *)
(***************************************************************************)
AllStages == <<"fetch", "compute", "summarize", "render">>

IsPrefix(s, t) == Len(s) <= Len(t) /\ s = SubSeq(t, 1, Len(s))

HasStarted(stage) == \E i \in 1..Len(started) : started[i] = stage

HasCompleted(stage) == \E i \in 1..Len(completed) : completed[i] = stage

\* the date strings of the model that are valid ISO 8601 calendar dates
ValidDateStrings ==
    {DefaultStart, DefaultEnd, <<"2", "0", "2", "4", "-", "0", "2", "-", "2", "9">>}

Configured == pc # "parse_args" /\ config # NoConfig

MalformedDate ==
    /\ Configured
    /\ config.start_date \notin ValidDateStrings \/ config.end_date \notin ValidDateStrings

\* the provider was called and returned a table with no rows
EmptyReply ==
    /\ provider_calls # <<>>
    /\ downloaded.raised = "none"
    /\ NRows(downloaded.frame) = 0

AdjClose(f) == f.columns["adj_close"]
Daily(f) == f.columns["daily_return"]
Cumulative(f) == f.columns["cumulative_return"]

\* every adjusted close of the price series is present and positive
AllPositive(f) == \A i \in 1..NRows(f) : AdjClose(f)[i][2] > 0 /\ AdjClose(f)[i][1] > 0

NoneMissing(f) == \A i \in 1..NRows(f) : AdjClose(f)[i] # NaN

NoneZero(f) == \A i \in 1..NRows(f) : AdjClose(f)[i] # Zero

\* v is the finite fraction num/den (den # 0), by cross-multiplication
IsFraction(v, num, den) == v[2] > 0 /\ v[1] * den = num * v[2]

\* the product of the members of s, from scratch
RECURSIVE Product(_)
Product(s) == IF s = <<>> THEN One ELSE FMul(Head(s), Product(Tail(s)))

\* printed is x rounded to a whole number of 1/scale units
IsRounding(printed, x, scale) ==
    IF x[2] = 0 THEN printed.special = (IF x[1] = 0 THEN "nan" ELSE "inf")
    ELSE /\ printed.special = ""
         /\ printed.neg = (x[1] < 0)
         /\ 2 * Abs(printed.units * x[2] - Abs(x[1]) * scale) <= x[2]

\* C1: when the provider returns an empty result, fetch fails with the
\* no-data error (RuntimeError), the run ends there, and no summary line is
\* printed and no chart is shown then or later.
C1_EmptyResultNoOutput ==
    EmptyReply =>
        /\ pc = "exited"
        /\ error = "RuntimeError"
        /\ stdout = <<>>
        /\ window = "none" /\ figure = NoFigure
        /\ started = <<"fetch">> /\ completed = <<>>
        /\ ~ENABLED Next

C1_Witness == EmptyReply /\ pc = "exited" /\ config.ticker = DefaultTicker

\* C2: the stages run in the order fetch, compute, summarize, render, each at
\* most once, a stage starting only after the earlier ones returned; an
\* exception ends the run at once (nothing runs after it); a run that has
\* ended either completed all four stages or never drew or showed a chart.
C2_StageOrder ==
    /\ IsPrefix(started, AllStages)
    /\ IsPrefix(completed, started)
    /\ Len(started) <= Len(completed) + 1
    /\ (error # "none" => pc = "exited")
    /\ (pc = "exited" => ~ENABLED Next)
    /\ (pc = "exited" => completed = AllStages \/ (window = "none" /\ figure = NoFigure))
    /\ (pc # "exited" /\ pc # "showing" /\ pc # "parse_args" =>
            started = completed /\ pc = AllStages[Len(started) + 1])

C2_Witness ==
    /\ pc = "exited"
    /\ started = <<"fetch", "compute", "summarize">>
    /\ completed = <<"fetch", "compute">>
    /\ error = "IndexError"

\* C3 (as stated): with a malformed start or end date the run fails with the
\* format error before any later stage: no provider call, no returns computed.
C3_FormatErrorBeforeFetch ==
    MalformedDate =>
        /\ provider_calls = <<>>
        /\ ~HasStarted("compute")
        /\ (pc = "exited" => error = "ValueError")

\* C3 (amended): with a malformed start or end date nothing is ever printed
\* or shown; the format error (ValueError) is raised when summarize starts,
\* i.e. after the provider call was made and the returns were computed, before
\* any summary line, and it ends the run with status 1; if the fetch fails
\* first, the run ends with that error.
C3_FormatErrorAtSummarize ==
    MalformedDate =>
        /\ stdout = <<>>
        /\ window = "none"
        /\ ~HasStarted("render")
        /\ (HasStarted("summarize") =>
               /\ pc = "exited" /\ error = "ValueError" /\ exit_status = 1
               /\ Len(provider_calls) = 1
               /\ completed = <<"fetch", "compute">>)
        /\ (pc = "exited" => error \in {"ValueError", "RuntimeError", "ProviderError"})
        /\ (pc = "exited" => ~ENABLED Next)

C3_Witness ==
    /\ MalformedDate
    /\ error = "ValueError"
    /\ provider_calls # <<>>
    /\ NRows(returns) > 0

\* a stage was entered and did not return
StageFailed == pc = "exited" /\ Len(started) > Len(completed)

\* C4 (as stated): the exit status is non-zero whenever a stage fails, and it
\* is 0 only in runs where the chart was shown and its window closed.
C4_ExitZeroOnlyAfterRender ==
    /\ (StageFailed => exit_status # 0 /\ exit_status # NotExited)
    /\ (exit_status = 0 => window = "closed" /\ completed = AllStages)

\* C4 (amended): the exit status is non-zero whenever a stage fails, and it is
\* 0 only in runs where the render stage reached its end (plt.show() returned:
\* the chart window was closed, or the backend cannot open one), or in runs
\* that argparse ended for -h/--help before any stage started.
C4_ExitZeroAfterRenderOrHelp ==
    /\ (StageFailed => exit_status # 0 /\ exit_status # NotExited /\ error # "none")
    /\ (pc = "exited" <=> exit_status # NotExited)
    /\ (exit_status = 0 =>
           \/ /\ completed = AllStages /\ error = "none"
              /\ window # "open" /\ figure = plot_figure(returns, config)
           \/ started = <<>> /\ error = "SystemExit" /\ config = NoConfig)

C4_Witness == exit_status = 0 /\ window = "closed" /\ Len(stdout) = 4

\* C5: for a non-empty price series whose adjusted closes are all present and
\* positive, daily_return[0] = 0 and daily_return[i] =
\* adjusted_close[i] / adjusted_close[i-1] - 1 for i > 0; prices
\* [100, 110, 99] give daily [0, 1/10, -1/10] and cumulative [0, 1/10, -1/100].
C5_DailyReturn ==
    (HasCompleted("compute") /\ AllPositive(price_history)) =>
        /\ NRows(returns) = NRows(price_history)
        /\ Daily(returns)[1] = Zero
        /\ \A i \in 2..NRows(returns) :
              LET p == AdjClose(price_history)[i]
                  q == AdjClose(price_history)[i - 1]
              IN  IsFraction(Daily(returns)[i], p[1] * q[2] - q[1] * p[2], q[1] * p[2])
        /\ (AdjClose(price_history) = <<Num(100), Num(110), Num(99)>> =>
               /\ Daily(returns) = <<Zero, <<1, 10>>, <<-1, 10>>>>
               /\ Cumulative(returns) = <<Zero, <<1, 10>>, <<-1, 100>>>>)

C5_Witness ==
    /\ HasCompleted("compute")
    /\ AdjClose(price_history) = <<Num(100), Num(110), Num(99)>>

\* C6: at every index i of the return series, 1 + cumulative_return[i] is the
\* product of (1 + daily_return[j]) for j = 0..i; if every daily_return is 0,
\* every cumulative_return is 0.
C6_CumulativeIsProduct ==
    HasCompleted("compute") =>
        /\ \A i \in 1..NRows(returns) :
              FAdd(One, Cumulative(returns)[i])
                 = Product([j \in 1..i |-> FAdd(One, Daily(returns)[j])])
        /\ ((\A i \in 1..NRows(returns) : Daily(returns)[i] = Zero) =>
               \A i \in 1..NRows(returns) : Cumulative(returns)[i] = Zero)

C6_Witness ==
    /\ HasCompleted("compute")
    /\ NRows(returns) = 3
    /\ \A i \in 2..3 : Daily(returns)[i] # Zero /\ IsFinite(Daily(returns)[i])

\* what C7 says apart from its clause on series without a missing close: the
\* output's dates are input dates in the same order without duplicates, each
\* with the input's adjusted close, no output row has a missing value, the
\* output is no longer than the input, and the input is what fetch returned
C7_Restriction ==
    /\ \A k \in 1..NRows(returns) :
          /\ returns.index[k] \in 1..NRows(price_history)
          /\ price_history.index[returns.index[k]] = returns.index[k]
          /\ AdjClose(returns)[k] = AdjClose(price_history)[returns.index[k]]
          /\ AdjClose(returns)[k] # NaN /\ Daily(returns)[k] # NaN
          /\ Cumulative(returns)[k] # NaN
          /\ (k > 1 => returns.index[k - 1] < returns.index[k])
    /\ NRows(returns) <= NRows(price_history)
    /\ DOMAIN returns.columns = {"adj_close", "daily_return", "cumulative_return"}
    /\ DOMAIN price_history.columns = {"adj_close"}
    /\ price_history.index = downloaded.frame.index
    /\ AdjClose(price_history) = downloaded.frame.columns["Adj Close"]

\* C7 (as stated): the return series is the price series restricted to its
\* rows without a missing value, in order, and when no adjusted close is
\* missing it has the dates and the length of the price series; compute
\* leaves the price series unchanged.
C7_SameDatesWhenNoneMissing ==
    HasCompleted("compute") =>
        /\ C7_Restriction
        /\ (NoneMissing(price_history) => returns.index = price_history.index)

\* C7 (amended): as stated, but the output has the dates and the length of the
\* input when no adjusted close is missing and none is zero; more generally,
\* when none is zero the output dates are exactly the dates whose adjusted
\* close is present.
C7_SameDatesWhenNoneMissingNoneZero ==
    HasCompleted("compute") =>
        /\ C7_Restriction
        /\ (NoneMissing(price_history) /\ NoneZero(price_history) =>
               returns.index = price_history.index)
        /\ (NoneZero(price_history) =>
               {returns.index[k] : k \in 1..NRows(returns)}
                 = {price_history.index[i] : i \in {j \in 1..NRows(price_history) :
                                                      AdjClose(price_history)[j] # NaN}})

C7_Witness ==
    /\ HasCompleted("compute")
    /\ NRows(price_history) = 3
    /\ AdjClose(price_history)[2] = NaN
    /\ returns.index = <<1, 3>>

\* C8: the starting and ending adjusted closes summarize prints are those of
\* the first and the last element of the return series, and the total return
\* it prints is the last element's cumulative return (each rounded to the
\* printed precision), whatever the configured dates.
C8_SummaryFromSeriesEnds ==
    HasCompleted("summarize") =>
        /\ NRows(returns) > 0
        /\ Len(stdout) = 4
        /\ stdout[2].value = [neg |-> FALSE, special |-> "",
                              units |-> 100 * AdjClose(returns)[1][1]]
        /\ stdout[3].value = [neg |-> FALSE, special |-> "",
                              units |-> 100 * AdjClose(returns)[NRows(returns)][1]]
        /\ IsRounding(stdout[4].value, Cumulative(returns)[NRows(returns)], 10000)

C8_Witness ==
    /\ HasCompleted("summarize")
    /\ NRows(returns) >= 2
    /\ AdjClose(returns)[1] # AdjClose(returns)[NRows(returns)]
    /\ config.start_date # DefaultStart

\* C9: the provider is called at most once per run, with the configured
\* ticker, start date and end date; the call is made when fetch starts and is
\* never repeated, whatever it returned.
C9_OneProviderCall ==
    /\ Len(provider_calls) <= 1
    /\ (HasStarted("fetch") <=> Len(provider_calls) = 1)
    /\ \A i \in 1..Len(provider_calls) :
          /\ provider_calls[i].ticker = config.ticker
          /\ provider_calls[i].start = config.start_date
          /\ provider_calls[i].end = config.end_date
          /\ Configured
    /\ (error \in {"RuntimeError", "ProviderError"} =>
           pc = "exited" /\ ~ENABLED MainFetch /\ Len(provider_calls) = 1)

C9_Witness ==
    /\ pc = "exited"
    /\ error = "ProviderError"
    /\ Len(provider_calls) = 1
    /\ provider_calls[1].ticker = "AAPL"

\* C10: for a non-empty price series whose adjusted closes are all present
\* and positive, cumulative_return[i] = adjusted_close[i] / adjusted_close[0]
\* - 1 at every index, so the printed total return is last close / first
\* close - 1 (rounded to the printed precision).
C10_Telescoping ==
    (HasCompleted("compute") /\ AllPositive(price_history)) =>
        /\ NRows(returns) = NRows(price_history)
        /\ \A i \in 1..NRows(returns) :
              LET p == AdjClose(price_history)[i]
                  q == AdjClose(price_history)[1]
              IN  IsFraction(Cumulative(returns)[i], p[1] * q[2] - q[1] * p[2], q[1] * p[2])
        /\ (HasCompleted("summarize") =>
               LET p == AdjClose(price_history)[NRows(price_history)]
                   q == AdjClose(price_history)[1]
               IN  IsRounding(stdout[4].value,
                              Norm(p[1] * q[2] - q[1] * p[2], q[1] * p[2]), 10000))

C10_Witness ==
    /\ HasCompleted("summarize")
    /\ AllPositive(price_history)
    /\ NRows(price_history) = 3
    /\ AdjClose(price_history)[2] # AdjClose(price_history)[1]
    /\ AdjClose(price_history)[2] # AdjClose(price_history)[3]
    /\ AdjClose(price_history)[1] # AdjClose(price_history)[3]

====
